---------------------------- MODULE Spec2Model ----------------------------
(***************************************************************************)
(* State-machine model of the SHA administration platform                  *)
(* (sha_application/models.py, views.py, admin.py).                        *)
(*                                                                         *)
(* The database is the state: one variable per table that the operations   *)
(* below read or write.  A web view is modelled step by step (load, save,  *)
(* audit write, notification write): Django runs in autocommit mode and    *)
(* the views open no transaction, so every ORM call commits on its own and *)
(* other requests may run between two calls.  An admin-site action is one  *)
(* UPDATE statement and therefore one atomic step.                         *)
(***************************************************************************)
EXTENDS Integers, Sequences, FiniteSets, TLC

\* ------------------------------------------------------------------ bounds
MaxTime == 2          \* the clock runs over 1..MaxTime
MaxAudit == 2         \* view requests are admitted while the audit log can still grow
MaxMinutes == 12      \* Elapse moves the clock up to this minute
MaxRows == 2          \* the ledgers that the reports are run on have up to MaxRows rows

\* ----------------------------------------------------------------- domains
Admins == {"a1", "a2"}                 \* users with user_type = 'admin'
NonAdmins == {"h1"}                    \* a user of another user_type
Users == Admins \cup NonAdmins
Members == {"m1", "m2"}
Docs == {"d1"}
Claims == {"c1", "c2"}
Months == {"2024-01", "2024-02"}       \* contribution periods
Reqs == {"r1", "r2"}                   \* concurrent web requests
OTPs == {"o1"}
Visits == {"v1", "v2"}
Stocks == {"s1"}
Hospitals == {"H1", "H2"}
Prescriptions == {"p1"}
Items == {"i1", "i2"}                  \* the items of the prescription p1
NULL == "NULL"                         \* a NULL foreign key

\* A nullable date or amount is a set: {} is NULL, {v} is the value v.
Nothing == {}
Some(v) == {v}

MEMBER_STATUS == {"pending", "active", "suspended", "inactive"}
CLAIM_STATUS == {"submitted", "under_review", "approved", "rejected", "paid"}
PAYMENT_STATUS == {"pending", "completed", "failed", "refunded"}
VISIT_STATUS == {"scheduled", "checked_in", "in_consultation", "completed", "cancelled"}
PRESCRIPTION_STATUS == {"pending", "dispensed", "partially_dispensed", "cancelled"}

EveryoneAdmin(u) == "admin"

user_type(u) == IF u \in Admins THEN "admin" ELSE "hospital"

VARIABLES
    users,          \* the User rows that exist
    member,         \* SHAMember rows, by id
    doc,            \* MemberDocument rows, by id
    claim,          \* Claim rows, by id
    contribution,   \* Contribution rows, in insertion order
    auditLog,       \* AuditLog rows, in insertion order
    notifications,  \* Notification rows, counted by (recipient, notification_type)
    now,            \* timezone.now(), in minutes
    req,            \* the web requests in flight
    response,       \* what the last finished request answered
    otp,            \* OTP rows, by id
    visit,          \* HospitalVisit rows, by id
    stock,          \* PharmacyStock rows, by id
    prescription,   \* Prescription rows, by id
    item,           \* PrescriptionItem rows, by id
    visit_hospital, \* the column HospitalVisit.hospital, by visit
    claim_hospital, \* the column Claim.hospital, by claim
    claim_visit     \* the column Claim.visit, by claim

vars == <<users, member, doc, claim, contribution, auditLog, notifications,
          now, req, response, otp, visit, stock, prescription, item,
          visit_hospital, claim_hospital, claim_visit>>

\* The foreign keys that place visits and claims at hospitals.
links == <<visit_hospital, claim_hospital, claim_visit>>

\* The tables of the pharmacy.
pharmacy == <<stock, prescription, item>>

\* The tables of the hospital side.
clinical == <<otp, visit, pharmacy, links>>

\* The tables of the registry, the claims and the ledger, with the requests.
registry == <<users, member, doc, claim, contribution, auditLog, notifications,
              req, response>>

\* ------------------------------------------------------------------- rows
NoMember == [exists |-> FALSE, status |-> "pending",
             approval_date |-> Nothing, approved_by |-> NULL, sha_number |-> <<>>]
NewMember == [NoMember EXCEPT !.exists = TRUE]

\* County.code of the counties, and the strings of six random digits.
CountyCodes == {"001", "047"}
RandomDigits == {"000001", "000002"}

\* f"SHA{self.county.code}{random_digits}": the three parts, in order.
generate_sha_number(code, random_digits) == <<"SHA", code, random_digits>>

\* SHAMember.save(): if not self.sha_number: self.sha_number = generate_sha_number()
WithShaNumber(row, code, random_digits) ==
    IF row.sha_number = <<>>
    THEN [row EXCEPT !.sha_number = generate_sha_number(code, random_digits)]
    ELSE row

\* The draw of a registration whose number is free.  Which free number a
\* member gets matters to no other operation, so it is fixed per member.
FreeDraw == [m \in Members |-> IF m = "m1" THEN "000001" ELSE "000002"]

NoDoc == [exists |-> FALSE, verified |-> FALSE, verified_by |-> NULL]
NewDoc == [NoDoc EXCEPT !.exists = TRUE]

NoClaim == [exists |-> FALSE, status |-> "submitted", amount_claimed |-> 0,
            amount_approved |-> Nothing, reviewed_date |-> Nothing,
            reviewed_by |-> NULL, rejection_reason |-> "", review_notes |-> ""]
NewClaim(amount) == [NoClaim EXCEPT !.exists = TRUE, !.amount_claimed = amount]

NoOTP == [exists |-> FALSE, is_used |-> FALSE, created_at |-> 0, expires_at |-> 0,
          used_at |-> Nothing]

NoVisit == [exists |-> FALSE, status |-> "scheduled", otp_verified |-> FALSE,
            otp_verified_at |-> Nothing, otp |-> NULL]
NewVisit == [NoVisit EXCEPT !.exists = TRUE]

NoStock == [exists |-> FALSE, current_stock |-> 0]

NoPrescription == [exists |-> FALSE, status |-> "pending"]
NewPrescription == [NoPrescription EXCEPT !.exists = TRUE]

NoItem == [exists |-> FALSE, quantity_prescribed |-> 0, quantity_dispensed |-> 0]
NewItem(quantity) == [NoItem EXCEPT !.exists = TRUE, !.quantity_prescribed = quantity]

IdleReq == [pc |-> "idle"]

Answer(outcome, n) == [outcome |-> outcome, count |-> n]

AuditEntry(u, action, model, id) ==
    [user |-> u, action_type |-> action, model_name |-> model, object_id |-> id]

Notice(m, type) == <<m, type>>

\* Notification.objects.create(...): one more row of that recipient and type.
Notified(table, m, type) ==
    [table EXCEPT ![Notice(m, type)] = table[Notice(m, type)] + 1]

\* ---------------------------------------------------------------- helpers
InFlight == {r \in Reqs : req[r].pc # "idle"}

AuditsFor(log, model, id) ==
    {i \in 1..Len(log) : log[i].model_name = model /\ log[i].object_id = id}

NoticesFor(m, type) == notifications[Notice(m, type)]

SomeAdmin == \E u \in users : user_type(u) = "admin"

\* ------------------------------------------------------------------- Init
Init ==
    /\ users = Users
    /\ member = [m \in Members |-> NoMember]
    /\ doc = [d \in Docs |-> NoDoc]
    /\ claim = [c \in Claims |-> NoClaim]
    /\ contribution = <<>>
    /\ auditLog = <<>>
    /\ notifications = [n \in Members \X {"registration_approved"} |-> 0]
    /\ now = 1
    /\ req = [r \in Reqs |-> IdleReq]
    /\ response = Answer("none", 0)
    /\ otp = [o \in OTPs |-> NoOTP]
    /\ visit = [v \in Visits |-> NoVisit]
    /\ stock = [s \in Stocks |-> NoStock]
    /\ prescription = [p \in Prescriptions |-> NoPrescription]
    /\ item = [i \in Items |-> NoItem]
    /\ visit_hospital = [v \in Visits |-> NULL]
    /\ claim_hospital = [c \in Claims |-> NULL]
    /\ claim_visit = [c \in Claims |-> NULL]

\* The clock advances between any two steps.
Tick ==
    /\ now < MaxTime
    /\ now' = now + 1
    /\ UNCHANGED <<clinical, users, member, doc, claim, contribution, auditLog, notifications,
                   req, response>>

\* ------------------------------------------------------------ registration
\* SHAMember(...).save(): a new row with the field defaults.
RegisterMember(m) ==
    /\ ~member[m].exists
    /\ member' = [member EXCEPT ![m] = WithShaNumber(NewMember, "047", FreeDraw[m])]
    /\ UNCHANGED <<clinical, users, doc, claim, contribution, auditLog, notifications, now,
                   req, response>>

\* unique=True on sha_number: the INSERT of a row whose number another member
\* already has raises IntegrityError.
NumberTaken(table, n) == \E x \in Members : table[x].exists /\ table[x].sha_number = n

\* SHAMember(county=code, ...).save() with the draw random_digits: the number
\* is generated once and the row inserted; save() has no retry, so the
\* IntegrityError of a taken number ends the registration.
SHAMemberSave(m, code, random_digits) ==
    /\ ~member[m].exists
    /\ LET row == WithShaNumber(NewMember, code, random_digits)
       IN IF NumberTaken(member, row.sha_number)
          THEN /\ response' = Answer("IntegrityError", 0)
               /\ UNCHANGED member
          ELSE /\ member' = [member EXCEPT ![m] = row]
               /\ response' = Answer("registered", 1)
    /\ UNCHANGED <<clinical, users, doc, claim, contribution, auditLog, notifications, now,
                   req>>

\* A later member.save() (here the change form setting the status to s), at
\* which the draw would be random_digits.
SHAMemberSaveAgain(m, s, code, random_digits) ==
    /\ member[m].exists
    /\ member[m].status # s
    /\ member' = [member EXCEPT ![m] =
                     WithShaNumber([member[m] EXCEPT !.status = s], code, random_digits)]
    /\ response' = Answer("changed", 1)
    /\ UNCHANGED <<clinical, users, doc, claim, contribution, auditLog, notifications, now,
                   req>>

\* MemberDocument(...).save(): a new, unverified document of a member.
UploadDocument(d) ==
    /\ ~doc[d].exists
    /\ \E m \in Members : member[m].exists
    /\ doc' = [doc EXCEPT ![d] = NewDoc]
    /\ UNCHANGED <<clinical, users, member, claim, contribution, auditLog, notifications, now,
                   req, response>>

\* ------------------------------------------------- approve_member (view)
\* A guard that lets through every member that is not active yet.
MemberApprovableUnlessActive(snap) == snap.status # "active"

\* The guard of the view: what it does with the member it loaded.
MemberApprovable(snap) == snap.status = "pending"

\* The fields the view sets before member.save().
ApprovedMember(snap, u, t) ==
    [snap EXCEPT !.status = "active", !.approval_date = Some(t), !.approved_by = u]

\* The request arrives: access check, get_object_or_404, request.method.
ApproveMemberLoad(r, u, m, method) ==
    /\ req[r].pc = "idle"
    /\ u \in users
    /\ IF user_type(u) # "admin"
       THEN response' = Answer("redirect_login", 0) /\ UNCHANGED req
       ELSE IF ~member[m].exists
       THEN response' = Answer("not_found", 0) /\ UNCHANGED req
       ELSE IF method # "POST"
       THEN response' = Answer("redirect_detail", 0) /\ UNCHANGED req
       ELSE /\ Len(auditLog) + Cardinality(InFlight) < MaxAudit
            /\ req' = [req EXCEPT ![r] = [pc |-> "loaded", kind |-> "approve_member",
                                          user |-> u, target |-> m, snap |-> member[m]]]
            /\ UNCHANGED response
    /\ UNCHANGED <<clinical, users, member, doc, claim, contribution, auditLog, notifications, now>>

\* if member.status == 'pending': ...; member.save()   else: messages.warning
ApproveMemberSave(r) ==
    /\ req[r].pc = "loaded"
    /\ req[r].kind = "approve_member"
    /\ IF MemberApprovable(req[r].snap)
       THEN /\ member' = [member EXCEPT ![req[r].target] =
                             ApprovedMember(req[r].snap, req[r].user, now)]
            /\ req' = [req EXCEPT ![r].pc = "saved"]
            /\ UNCHANGED response
       ELSE /\ req' = [req EXCEPT ![r] = IdleReq]
            /\ response' = Answer("warning_not_pending", 0)
            /\ UNCHANGED member
    /\ UNCHANGED <<clinical, users, doc, claim, contribution, auditLog, notifications, now>>

\* AuditLog.objects.create(action_type='approval', model_name='SHAMember', ...)
ApproveMemberAudit(r) ==
    /\ req[r].pc = "saved"
    /\ req[r].kind = "approve_member"
    /\ auditLog' = Append(auditLog,
           AuditEntry(req[r].user, "approval", "SHAMember", req[r].target))
    /\ req' = [req EXCEPT ![r].pc = "audited"]
    /\ UNCHANGED <<clinical, users, member, doc, claim, contribution, notifications, now, response>>

\* Notification.objects.create(notification_type='registration_approved', ...)
ApproveMemberNotify(r) ==
    /\ req[r].pc = "audited"
    /\ req[r].kind = "approve_member"
    /\ notifications' = Notified(notifications, req[r].target, "registration_approved")
    /\ req' = [req EXCEPT ![r] = IdleReq]
    /\ response' = Answer("success", 0)
    /\ UNCHANGED <<clinical, users, member, doc, claim, contribution, auditLog, now>>

\* A storage failure (or any unhandled exception) between two ORM calls ends
\* the request.  No view runs inside transaction.atomic, so what was saved
\* before the failure stays committed.
RequestFails(r) ==
    /\ req[r].pc \in {"saved", "audited"}
    /\ req' = [req EXCEPT ![r] = IdleReq]
    /\ response' = Answer("server_error", 0)
    /\ UNCHANGED <<clinical, users, member, doc, claim, contribution, auditLog, notifications, now>>

\* ------------------------------------------- SHAMemberAdmin bulk actions
\* queryset.filter(status='pending').update(status='active', approval_date, approved_by)
BulkApproved(row, u, t) ==
    IF row.exists /\ row.status = "pending"
    THEN [row EXCEPT !.status = "active", !.approval_date = Some(t), !.approved_by = u]
    ELSE row

\* The rows of table that an UPDATE over the queryset qs matched.
Existing(table, qs) == {e \in qs : table[e].exists}
Matched(table, qs, statuses) == {e \in Existing(table, qs) : table[e].status \in statuses}

approve_members(u, qs) ==
    /\ u \in users /\ user_type(u) = "admin"
    /\ member' = [m \in Members |-> IF m \in qs THEN BulkApproved(member[m], u, now)
                                    ELSE member[m]]
    /\ response' = Answer("updated", Cardinality(Matched(member, qs, {"pending"})))
    /\ UNCHANGED <<clinical, users, doc, claim, contribution, auditLog, notifications, now, req>>

\* An overwrite of the status that also forgets when the member was approved.
StatusSetForgetting(row, s) ==
    IF row.exists THEN [row EXCEPT !.status = s, !.approval_date = Nothing] ELSE row

\* queryset.update(status=...)
StatusSet(row, s) == IF row.exists THEN [row EXCEPT !.status = s] ELSE row

suspend_members(qs) ==
    /\ SomeAdmin
    /\ member' = [m \in Members |-> IF m \in qs THEN StatusSet(member[m], "suspended")
                                    ELSE member[m]]
    /\ response' = Answer("updated", Cardinality(Existing(member, qs)))
    /\ UNCHANGED <<clinical, users, doc, claim, contribution, auditLog, notifications, now, req>>

activate_members(qs) ==
    /\ SomeAdmin
    /\ member' = [m \in Members |-> IF m \in qs THEN StatusSet(member[m], "active")
                                    ELSE member[m]]
    /\ response' = Answer("updated", Cardinality(Existing(member, qs)))
    /\ UNCHANGED <<clinical, users, doc, claim, contribution, auditLog, notifications, now, req>>

\* queryset.update(verified=True, verified_by=request.user)
Verified(row, u) ==
    IF row.exists THEN [row EXCEPT !.verified = TRUE, !.verified_by = u] ELSE row

verify_documents(u, qs) ==
    /\ u \in users /\ user_type(u) = "admin"
    /\ doc' = [d \in Docs |-> IF d \in qs THEN Verified(doc[d], u) ELSE doc[d]]
    /\ response' = Answer("updated", Cardinality(Existing(doc, qs)))
    /\ UNCHANGED <<clinical, users, member, claim, contribution, auditLog, notifications, now, req>>

\* The SHAMemberAdmin change form: status is an editable field of its fieldsets.
MemberAdminChangeStatus(m, s) ==
    /\ SomeAdmin
    /\ member[m].exists
    /\ member' = [member EXCEPT ![m].status = s]
    /\ response' = Answer("changed", 1)
    /\ UNCHANGED <<clinical, users, doc, claim, contribution, auditLog, notifications, now, req>>

\* ---------------------------------------------------------- claim intake
ClaimedAmounts == {500}

\* Claim(...).save(): a new row with the field defaults.
SubmitClaim(c, amount) ==
    /\ ~claim[c].exists
    /\ claim' = [claim EXCEPT ![c] = NewClaim(amount)]
    /\ UNCHANGED <<clinical, users, member, doc, contribution, auditLog, notifications, now,
                   req, response>>

\* --------------------------------------------------- claim_detail (view)
\* request.POST.get('approved_amount'): a string, or None when the field is
\* not posted.
MISSING == "<None>"
AmountInputs == {MISSING, "abc", "300", "500", "800"}

\* Decimal(x): a number for a numeric string; TypeError for None (caught by the
\* view's except clause); decimal.InvalidOperation, which is no ValueError,
\* for any other string (not caught).
Decimal(x) ==
    CASE x = "300" -> [ok |-> TRUE, value |-> 300]
      [] x = "500" -> [ok |-> TRUE, value |-> 500]
      [] x = "800" -> [ok |-> TRUE, value |-> 800]
      [] x = MISSING -> [ok |-> FALSE, error |-> "TypeError"]
      [] OTHER -> [ok |-> FALSE, error |-> "InvalidOperation"]

\* The POST bodies: action, and the fields the action reads.
ApprovePosts(amounts, notes) ==
    [action : {"approve"}, approved_amount : amounts, review_notes : notes]
RejectPosts(reasons) == [action : {"reject"}, rejection_reason : reasons]

\* The fields the view sets before claim.save().
ApprovedClaim(snap, amount, notes, u, t) ==
    [snap EXCEPT !.status = "approved", !.amount_approved = Some(amount),
                 !.review_notes = notes, !.reviewed_date = Some(t), !.reviewed_by = u]

RejectedClaim(snap, reason, u, t) ==
    [snap EXCEPT !.status = "rejected", !.rejection_reason = reason,
                 !.reviewed_date = Some(t), !.reviewed_by = u]

\* The request arrives: access check, get_object_or_404, request.method, action.
ClaimDetailLoad(r, u, c, method, post) ==
    /\ req[r].pc = "idle"
    /\ u \in users
    /\ IF user_type(u) # "admin"
       THEN response' = Answer("redirect_login", 0) /\ UNCHANGED req
       ELSE IF ~claim[c].exists
       THEN response' = Answer("not_found", 0) /\ UNCHANGED req
       ELSE IF method # "POST"
       THEN response' = Answer("rendered", 0) /\ UNCHANGED req
       ELSE /\ Len(auditLog) + Cardinality(InFlight) < MaxAudit
            /\ req' = [req EXCEPT ![r] = [pc |-> "loaded", kind |-> "claim_detail",
                                          user |-> u, target |-> c, snap |-> claim[c],
                                          post |-> post]]
            /\ UNCHANGED response
    /\ UNCHANGED <<clinical, users, member, doc, claim, contribution, auditLog, notifications, now>>

\* action == 'approve': Decimal(approved_amount), set the fields, claim.save().
\* action == 'reject': if rejection_reason: set the fields, claim.save().
ClaimDetailSave(r) ==
    /\ req[r].pc = "loaded"
    /\ req[r].kind = "claim_detail"
    /\ LET c == req[r].target
           post == req[r].post
           refused(outcome) ==
               /\ req' = [req EXCEPT ![r] = IdleReq]
               /\ response' = Answer(outcome, 0)
               /\ UNCHANGED claim
           saved(row) ==
               /\ claim' = [claim EXCEPT ![c] = row]
               /\ req' = [req EXCEPT ![r].pc = "saved"]
               /\ UNCHANGED response
       IN IF post.action = "approve"
          THEN LET d == Decimal(post.approved_amount)
               IN IF d.ok
                  THEN saved(ApprovedClaim(req[r].snap, d.value, post.review_notes,
                                           req[r].user, now))
                  ELSE IF d.error = "TypeError"
                  THEN refused("invalid_approved_amount")
                  ELSE refused("server_error")
          ELSE IF post.rejection_reason # ""
          THEN saved(RejectedClaim(req[r].snap, post.rejection_reason, req[r].user, now))
          ELSE refused("rejection_reason_required")
    /\ UNCHANGED <<clinical, users, member, doc, contribution, auditLog, notifications, now>>

\* AuditLog.objects.create(action_type='approval' | 'rejection', model_name='Claim', ...)
ClaimDetailAudit(r) ==
    /\ req[r].pc = "saved"
    /\ req[r].kind = "claim_detail"
    /\ auditLog' = Append(auditLog,
           AuditEntry(req[r].user,
                      IF req[r].post.action = "approve" THEN "approval" ELSE "rejection",
                      "Claim", req[r].target))
    /\ req' = [req EXCEPT ![r] = IdleReq]
    /\ response' = Answer("success", 0)
    /\ UNCHANGED <<clinical, users, member, doc, claim, contribution, notifications, now>>

\* ------------------------------------------------ ClaimAdmin bulk actions
IsSubmitted(row) == row.status = "submitted"

\* queryset.filter(status='submitted').update(status=..., reviewed_date, reviewed_by)
BulkReviewed(row, s, u, t) ==
    IF row.exists /\ IsSubmitted(row)
    THEN [row EXCEPT !.status = s, !.reviewed_date = Some(t), !.reviewed_by = u]
    ELSE row

approve_claims(u, qs) ==
    /\ u \in users /\ user_type(u) = "admin"
    /\ claim' = [c \in Claims |-> IF c \in qs THEN BulkReviewed(claim[c], "approved", u, now)
                                  ELSE claim[c]]
    /\ response' = Answer("updated", Cardinality(Matched(claim, qs, {"submitted"})))
    /\ UNCHANGED <<clinical, users, member, doc, contribution, auditLog, notifications, now, req>>

reject_claims(u, qs) ==
    /\ u \in users /\ user_type(u) = "admin"
    /\ claim' = [c \in Claims |-> IF c \in qs THEN BulkReviewed(claim[c], "rejected", u, now)
                                  ELSE claim[c]]
    /\ response' = Answer("updated", Cardinality(Matched(claim, qs, {"submitted"})))
    /\ UNCHANGED <<clinical, users, member, doc, contribution, auditLog, notifications, now, req>>

\* The ClaimAdmin change form: status is an editable field of its fieldsets.
ClaimAdminChangeStatus(c, s) ==
    /\ SomeAdmin
    /\ claim[c].exists
    /\ claim' = [claim EXCEPT ![c].status = s]
    /\ response' = Answer("changed", 1)
    /\ UNCHANGED <<clinical, users, member, doc, contribution, auditLog, notifications, now, req>>

\* ----------------------------------------------------- contribution ledger
PaymentAmounts == {300, 500}

PaymentRow(m, p, amount, status) ==
    [member |-> m, contribution_month |-> p, amount |-> amount, status |-> status]

\* The rows of (member, contribution_month).
RowsOf(table, m, p) ==
    {i \in 1..Len(table) : table[i].member = m /\ table[i].contribution_month = p}

\* A constraint that also takes the amount into account.
UniqueViolationPerAmount(table, row) ==
    \E i \in RowsOf(table, row.member, row.contribution_month) :
        table[i].amount = row.amount

\* Meta.unique_together = ['member', 'contribution_month']: the INSERT of row
\* is refused when a row of the same member and month exists.
UniqueViolation(table, row) == RowsOf(table, row.member, row.contribution_month) # {}

\* An insert that overwrites the row of the same member and month.
Upserted(table, row) ==
    IF RowsOf(table, row.member, row.contribution_month) = {}
    THEN Append(table, row)
    ELSE [i \in 1..Len(table) |->
            IF i \in RowsOf(table, row.member, row.contribution_month)
            THEN row ELSE table[i]]

\* INSERT INTO contribution ... under the constraint.
Inserted(table, row) == IF UniqueViolation(table, row) THEN table ELSE Append(table, row)

\* Sum('amount') over the rows of (member, contribution_month).
RECURSIVE SumAmounts(_, _)
SumAmounts(table, idx) ==
    IF idx = {} THEN 0
    ELSE LET i == CHOOSE j \in idx : TRUE
         IN table[i].amount + SumAmounts(table, idx \ {i})

TotalFor(table, m, p) == SumAmounts(table, RowsOf(table, m, p))

\* The payment is posted (the ContributionAdmin add form): the request holds
\* the row it is about to insert.
RecordPaymentSubmit(r, m, p, amount, status) ==
    /\ req[r].pc = "idle"
    /\ SomeAdmin
    /\ member[m].exists
    /\ req' = [req EXCEPT ![r] = [pc |-> "submitted", kind |-> "record_payment",
                                  row |-> PaymentRow(m, p, amount, status)]]
    /\ UNCHANGED <<clinical, users, member, doc, claim, contribution, auditLog, notifications,
                   now, response>>

\* Contribution(...).save(): the INSERT, which the constraint may refuse.
RecordPaymentInsert(r) ==
    /\ req[r].pc = "submitted"
    /\ req[r].kind = "record_payment"
    /\ contribution' = Inserted(contribution, req[r].row)
    /\ response' = IF UniqueViolation(contribution, req[r].row)
                   THEN Answer("duplicate", 0)
                   ELSE Answer("created", 1)
    /\ req' = [req EXCEPT ![r] = IdleReq]
    /\ UNCHANGED <<clinical, users, member, doc, claim, auditLog, notifications, now>>

\* ------------------------------------------------------------------ users
\* on_delete=models.SET_NULL on a foreign key to User.
SetNull(ref, u) == IF ref = u THEN NULL ELSE ref

\* Deleting a user (UserAdmin keeps the admin site's delete permission): the
\* rows that refer to the user are kept with the reference set to NULL.
\* Taken while no request is in flight.
DeleteUser(u) ==
    /\ u \in users
    /\ SomeAdmin
    /\ InFlight = {}
    /\ users' = users \ {u}
    /\ member' = [m \in Members |->
                     [member[m] EXCEPT !.approved_by = SetNull(member[m].approved_by, u)]]
    /\ doc' = [d \in Docs |->
                  [doc[d] EXCEPT !.verified_by = SetNull(doc[d].verified_by, u)]]
    /\ claim' = [c \in Claims |->
                    [claim[c] EXCEPT !.reviewed_by = SetNull(claim[c].reviewed_by, u)]]
    /\ auditLog' = [i \in 1..Len(auditLog) |->
                       [auditLog[i] EXCEPT !.user = SetNull(auditLog[i].user, u)]]
    /\ response' = Answer("deleted", 1)
    /\ UNCHANGED <<clinical, contribution, notifications, now, req>>

\* ------------------------------------------------------------- OTP
\* timezone.timedelta(minutes=10) of OTP.save
OTP_MINUTES == 10

\* Time passes: d minutes.
Elapse(d) ==
    /\ now + d <= MaxMinutes
    /\ now' = now + d
    /\ UNCHANGED <<registry, clinical>>

\* OTP.save: timezone.now() + timezone.timedelta(minutes=10)
DefaultExpiry(t) == t + OTP_MINUTES

\* OTP(...).save() of a new row: created_at is auto_now_add, and expires_at
\* is the caller's value (a time that lies ahead) or, when the caller gave
\* none, the default.
OTPSave(o, expires) ==
    /\ ~otp[o].exists
    /\ \A t \in expires : t > now
    /\ \E m \in Members : member[m].exists
    /\ otp' = [otp EXCEPT ![o] =
                  [NoOTP EXCEPT !.exists = TRUE, !.created_at = now,
                                !.expires_at = IF expires = Nothing THEN DefaultExpiry(now)
                                               ELSE CHOOSE t \in expires : TRUE]]
    /\ UNCHANGED <<registry, now, visit, pharmacy, links>>

\* OTP.is_expired: timezone.now() > self.expires_at
is_expired(row) == now > row.expires_at

\* The OTPAdmin change form: is_used and expires_at are editable fields;
\* created_at, used_at and otp_code are read-only.
OTPAdminChange(o, used, expires) ==
    /\ SomeAdmin
    /\ otp[o].exists
    /\ otp' = [otp EXCEPT ![o].is_used = used, ![o].expires_at = expires]
    /\ UNCHANGED <<registry, now, visit, pharmacy, links>>

\* ----------------------------------------------------------- visits
\* HospitalVisit(...).save() of a new row with the field defaults.
ScheduleVisit(v) ==
    /\ ~visit[v].exists
    /\ \E m \in Members : member[m].exists
    /\ visit' = [visit EXCEPT ![v] = NewVisit]
    /\ UNCHANGED <<registry, now, otp, pharmacy, links>>

\* The HospitalVisitAdmin change form: status, otp_verified and otp are
\* editable fields; otp_verified_at is read-only.
VisitAdminChange(v, s, verified, o) ==
    /\ SomeAdmin
    /\ visit[v].exists
    /\ o # NULL => otp[o].exists
    /\ visit' = [visit EXCEPT ![v].status = s, ![v].otp_verified = verified,
                              ![v].otp = o]
    /\ UNCHANGED <<registry, now, otp, pharmacy, links>>

\* --------------------------------------------------------- pharmacy
\* What a stock form posts as current_stock.
StockInputs == {-1, 0, 1, 2, 3}

\* A validator that lets every number through.
NoValidator(value) == TRUE

\* validators=[MinValueValidator(0)] of PharmacyStock.current_stock, run by
\* the admin form's full_clean().
MinValueValidator(value) == value >= 0

\* The PharmacyStockAdmin add form.
StockAdminAdd(s, value) ==
    /\ SomeAdmin
    /\ ~stock[s].exists
    /\ IF MinValueValidator(value)
       THEN /\ stock' = [stock EXCEPT ![s] = [exists |-> TRUE, current_stock |-> value]]
            /\ response' = Answer("added", 1)
       ELSE /\ response' = Answer("validation_error", 0)
            /\ UNCHANGED stock
    /\ UNCHANGED <<users, member, doc, claim, contribution, auditLog, notifications,
                   now, req, otp, visit, prescription, item, links>>

\* The PharmacyStockAdmin change form is opened: the request shows the row.
StockFormLoad(r, s) ==
    /\ SomeAdmin
    /\ req[r].pc = "idle"
    /\ stock[s].exists
    /\ req' = [req EXCEPT ![r] = [pc |-> "stock_form", kind |-> "stock_change",
                                  target |-> s, snap |-> stock[s]]]
    /\ UNCHANGED <<users, member, doc, claim, contribution, auditLog, notifications,
                   now, response, clinical>>

\* The change form is posted: full_clean() runs the validator, then save().
StockFormPost(r, value) ==
    /\ req[r].pc = "stock_form"
    /\ IF MinValueValidator(value)
       THEN /\ stock' = [stock EXCEPT ![req[r].target].current_stock = value]
            /\ response' = Answer("changed", 1)
       ELSE /\ response' = Answer("validation_error", 0)
            /\ UNCHANGED stock
    /\ req' = [req EXCEPT ![r] = IdleReq]
    /\ UNCHANGED <<users, member, doc, claim, contribution, auditLog, notifications,
                   now, otp, visit, prescription, item, links>>

\* What a prescriber writes and a prescription form posts as quantities.
Quantities == {1, 2}
DispensedInputs == {0, 1, 2, 3}

\* The PrescriptionAdmin add form with its PrescriptionItemInline: the
\* prescription and its items, with the field defaults.
Prescribe(p, quantity) ==
    /\ SomeAdmin
    /\ ~prescription[p].exists
    /\ \E v \in Visits : visit[v].exists
    /\ prescription' = [prescription EXCEPT ![p] = NewPrescription]
    /\ item' = [i \in Items |-> NewItem(quantity[i])]
    /\ UNCHANGED <<registry, now, otp, visit, stock, links>>

\* The PrescriptionAdmin change form with its inline: status and each item's
\* quantity_dispensed are editable fields, saved as posted.
PrescriptionAdminChange(p, s, dispensed) ==
    /\ SomeAdmin
    /\ prescription[p].exists
    /\ prescription' = [prescription EXCEPT ![p].status = s]
    /\ item' = [i \in Items |-> [item[i] EXCEPT !.quantity_dispensed = dispensed[i]]]
    /\ UNCHANGED <<registry, now, otp, visit, stock, links>>

\* PrescriptionItem.is_fully_dispensed
is_fully_dispensed(row) == row.quantity_dispensed >= row.quantity_prescribed

\* ------------------------------------------- claims placed at hospitals
\* The HospitalVisitAdmin add form: a visit of a member at the hospital h.
VisitAdminAdd(v, h) ==
    /\ SomeAdmin
    /\ ~visit[v].exists
    /\ \E m \in Members : member[m].exists
    /\ visit' = [visit EXCEPT ![v] = NewVisit]
    /\ visit_hospital' = [visit_hospital EXCEPT ![v] = h]
    /\ UNCHANGED <<registry, now, otp, pharmacy, claim_hospital, claim_visit>>

\* The ClaimAdmin add form: hospital and visit are two fields of the form,
\* each chosen among the rows that exist.
ClaimAdminAdd(c, amount, h, v) ==
    /\ SomeAdmin
    /\ ~claim[c].exists
    /\ visit[v].exists
    /\ claim' = [claim EXCEPT ![c] = NewClaim(amount)]
    /\ claim_hospital' = [claim_hospital EXCEPT ![c] = h]
    /\ claim_visit' = [claim_visit EXCEPT ![c] = v]
    /\ UNCHANGED <<users, member, doc, contribution, auditLog, notifications, now,
                   req, response, otp, visit, pharmacy, visit_hospital>>

\* The ClaimAdmin change form: hospital and visit are editable fields.
ClaimAdminChangePlace(c, h, v) ==
    /\ SomeAdmin
    /\ claim[c].exists
    /\ visit[v].exists
    /\ claim_hospital' = [claim_hospital EXCEPT ![c] = h]
    /\ claim_visit' = [claim_visit EXCEPT ![c] = v]
    /\ UNCHANGED <<registry, now, otp, visit, pharmacy, visit_hospital>>

\* The HospitalVisitAdmin change form: hospital is an editable field.
VisitAdminChangeHospital(v, h) ==
    /\ SomeAdmin
    /\ visit[v].exists
    /\ visit_hospital' = [visit_hospital EXCEPT ![v] = h]
    /\ UNCHANGED <<registry, now, otp, visit, pharmacy, claim_hospital, claim_visit>>

\* ------------------------------------------------------- aggregations
\* The value of a nullable that is not NULL.
ValueOf(x) == CHOOSE v \in x : TRUE

\* Sum(...) of SQL over the values vals: NULL values are left out, and the sum
\* of no value at all is NULL.
RECURSIVE SqlSum(_)
SqlSum(vals) ==
    IF vals = <<>> THEN Nothing
    ELSE LET rest == SqlSum(Tail(vals))
         IN IF Head(vals) = Nothing THEN rest
            ELSE IF rest = Nothing THEN Head(vals)
            ELSE Some(ValueOf(Head(vals)) + ValueOf(rest))

\* x or Decimal('0.00'): None and a zero total are both falsy.
OrZero(x) == IF x = Nothing \/ ValueOf(x) = 0 THEN 0 ELSE ValueOf(x)

\* The column amount of the rows of table.
AmountsOf(table) == [i \in 1..Len(table) |-> Some(table[i].amount)]

\* A filter that takes the rows of every status.
AnyStatus(table) == table

\* filter(status='completed')
Completed(table) == SelectSeq(table, LAMBDA row : row.status = "completed")

\* The Claim rows that exist, as a table.
ClaimTable ==
    SelectSeq([i \in 1..2 |-> claim[<<"c1", "c2">>[i]]], LAMBDA row : row.exists)

\* admin_dashboard:
\* Contribution.objects.filter(status='completed').aggregate(total=Sum('amount'))['total'] or Decimal('0.00')
\* Claim.objects.aggregate(total=Sum('amount_claimed'))['total'] or Decimal('0.00')
admin_dashboard(u) ==
    /\ u \in users /\ user_type(u) = "admin"
    /\ response' =
          [outcome |-> "dashboard",
           total_contributions |-> OrZero(SqlSum(AmountsOf(Completed(contribution)))),
           total_claims_amount |->
               OrZero(SqlSum([i \in 1..Len(ClaimTable) |-> Some(ClaimTable[i].amount_claimed)]))]
    /\ UNCHANGED <<clinical, users, member, doc, claim, contribution, auditLog,
                   notifications, now, req>>

\* member_detail:
\* member.contributions.filter(status='completed').aggregate(total=Sum('amount'))['total'] or Decimal('0.00')
member_detail(u, m) ==
    /\ u \in users /\ user_type(u) = "admin"
    /\ member[m].exists
    /\ response' =
          [outcome |-> "member_detail", member |-> m,
           total_contributions |->
               OrZero(SqlSum(AmountsOf(
                   Completed(SelectSeq(contribution, LAMBDA row : row.member = m)))))]
    /\ UNCHANGED <<clinical, users, member, doc, claim, contribution, auditLog,
                   notifications, now, req>>

\* AdminDashboard.get_contribution_stats, run in the month p:
\* Contribution.objects.filter(contribution_month=current_month, status='completed')
\*     .aggregate(total=Sum('amount'))['total'] or 0
get_contribution_stats(p) ==
    /\ response' =
          [outcome |-> "contribution_stats", month |-> p,
           monthly_contributions |->
               OrZero(SqlSum(AmountsOf(
                   Completed(SelectSeq(contribution,
                                       LAMBDA row : row.contribution_month = p)))))]
    /\ UNCHANGED <<clinical, users, member, doc, claim, contribution, auditLog,
                   notifications, now, req>>

\* AdminDashboard.get_claim_stats:
\* Claim.objects.filter(status='approved').aggregate(total=Sum('amount_approved'))['total'] or 0
get_claim_stats ==
    /\ response' =
          [outcome |-> "claim_stats",
           approved_claims_value |->
               LET approved == SelectSeq(ClaimTable, LAMBDA row : row.status = "approved")
               IN OrZero(SqlSum([i \in 1..Len(approved) |-> approved[i].amount_approved]))]
    /\ UNCHANGED <<clinical, users, member, doc, claim, contribution, auditLog,
                   notifications, now, req>>

\* ------------------------------------------------------ specifications
\* The member operations: the requests of RS run concurrently on the members
\* of MS, on behalf of the users of US.
MemberNext(RS, MS, US) ==
    \/ \E m \in MS : RegisterMember(m)
    \/ \E r \in RS, u \in US, m \in MS, method \in {"GET", "POST"} :
          ApproveMemberLoad(r, u, m, method)
    \/ \E r \in RS : ApproveMemberSave(r)
    \/ \E r \in RS : ApproveMemberAudit(r)
    \/ \E r \in RS : ApproveMemberNotify(r)
    \/ \E r \in RS : RequestFails(r)
    \/ \E u \in US, qs \in SUBSET MS : approve_members(u, qs)
    \/ \E qs \in SUBSET MS : suspend_members(qs)
    \/ \E qs \in SUBSET MS : activate_members(qs)
    \/ \E m \in MS, s \in MEMBER_STATUS : MemberAdminChangeStatus(m, s)

DocNext(US) ==
    \/ \E d \in Docs : UploadDocument(d)
    \/ \E u \in US, qs \in SUBSET Docs : verify_documents(u, qs)

\* Payments of the members of MS, posted by the requests of RS.
LedgerNext(RS, MS, SS) ==
    \/ \E m \in MS : RegisterMember(m)
    \/ \E r \in RS, m \in MS, p \in Months, a \in PaymentAmounts, st \in SS :
          RecordPaymentSubmit(r, m, p, a, st)
    \/ \E r \in RS : RecordPaymentInsert(r)

UserNext(US) == \E u \in US : DeleteUser(u)

\* The hospital side: the OTPs and the visits of VS, with expiries out of ES.
VisitNext(VS, ES) ==
    \/ \E d \in {5, 6} : Elapse(d)
    \/ \E o \in OTPs, e \in {Nothing} \cup {Some(t) : t \in ES} : OTPSave(o, e)
    \/ \E o \in OTPs, used \in BOOLEAN, e \in ES : OTPAdminChange(o, used, e)
    \/ \E v \in VS : ScheduleVisit(v)
    \/ \E v \in VS, s \in VISIT_STATUS, verified \in BOOLEAN, o \in OTPs \cup {NULL} :
          VisitAdminChange(v, s, verified, o)

\* The claim operations on the claims of CS, on behalf of the users of US: the
\* requests of RS post the bodies of PD to the claims of VS.
ClaimNext(RS, VS, CS, US, PD) ==
    \/ \E c \in CS, a \in ClaimedAmounts : SubmitClaim(c, a)
    \/ \E r \in RS, u \in US, c \in VS, method \in {"GET", "POST"}, post \in PD :
          ClaimDetailLoad(r, u, c, method, post)
    \/ \E r \in RS : ClaimDetailSave(r)
    \/ \E r \in RS : ClaimDetailAudit(r)
    \/ \E r \in RS : RequestFails(r)
    \/ \E u \in US, qs \in SUBSET CS : approve_claims(u, qs)
    \/ \E u \in US, qs \in SUBSET CS : reject_claims(u, qs)
    \/ \E c \in CS, s \in CLAIM_STATUS : ClaimAdminChangeStatus(c, s)

SpecMembers == Init /\ [][MemberNext({"r1"}, Members, {"a1", "h1"})]_vars

SpecClaims ==
    Init /\ [][ClaimNext({"r1"}, {"c1"}, Claims, {"a1", "h1"},
                         ApprovePosts({"300", "800"}, {""}) \cup RejectPosts({"", "late"}))]_vars

\* The review of one claim by either admin, with the clock running.
SpecReview ==
    Init /\ [][Tick \/ ClaimNext({"r1"}, {"c1"}, {"c1"}, Admins,
                                ApprovePosts({"300"}, {""}) \cup RejectPosts({"late"}))]_vars

\* The visits and their OTPs, for one registered member.
SpecVisits ==
    Init /\ [][(\E m \in {"m1"} : RegisterMember(m)) \/ VisitNext(Visits, {8, 11})]_vars

\* The stock forms of the requests of RS.
StockNext(RS) ==
    \/ \E s \in Stocks, value \in StockInputs : StockAdminAdd(s, value)
    \/ \E r \in RS, s \in Stocks : StockFormLoad(r, s)
    \/ \E r \in RS, value \in StockInputs : StockFormPost(r, value)

\* The prescription with its items.
PrescriptionNext ==
    \/ \E p \in Prescriptions, quantity \in [Items -> Quantities] : Prescribe(p, quantity)
    \/ \E p \in Prescriptions, s \in PRESCRIPTION_STATUS, dispensed \in [Items -> DispensedInputs] :
          PrescriptionAdminChange(p, s, dispensed)

\* The stock of one batch under two concurrent form requests.
SpecStock == Init /\ [][StockNext(Reqs)]_vars

\* The prescription of a visit.
SpecPrescriptions ==
    Init /\ [][\/ \E m \in {"m1"} : RegisterMember(m)
               \/ \E v \in {"v1"} : ScheduleVisit(v)
               \/ PrescriptionNext]_vars

\* The claims of the visits, at their hospitals.
PlaceNext ==
    \/ \E v \in Visits, h \in Hospitals : VisitAdminAdd(v, h)
    \/ \E c \in Claims, a \in ClaimedAmounts, h \in Hospitals, v \in Visits :
          ClaimAdminAdd(c, a, h, v)
    \/ \E c \in Claims, h \in Hospitals, v \in Visits : ClaimAdminChangePlace(c, h, v)
    \/ \E v \in Visits, h \in Hospitals : VisitAdminChangeHospital(v, h)

SpecPlaces == Init /\ [][(\E m \in {"m1"} : RegisterMember(m)) \/ PlaceNext]_vars

\* The ledgers of up to MaxRows contributions that the unique constraint
\* admits.
Ledgers ==
    LET rows == {PaymentRow(m, p, a, st) : m \in Members, p \in Months,
                                           a \in PaymentAmounts, st \in {"completed", "pending"}}
    IN {t \in UNION {[1..n -> rows] : n \in 0..MaxRows} :
           \A i, j \in 1..Len(t) :
              (t[i].member = t[j].member /\ t[i].contribution_month = t[j].contribution_month)
              => i = j}

\* The claims as review leaves them: not filed, submitted, approved by the
\* view (with an amount), approved by the bulk action (without), rejected.
ReviewedClaims ==
    {NoClaim, NewClaim(500),
     [NewClaim(500) EXCEPT !.status = "approved", !.amount_approved = Some(300),
                           !.reviewed_date = Some(1), !.reviewed_by = "a1"],
     [NewClaim(500) EXCEPT !.status = "approved",
                           !.reviewed_date = Some(1), !.reviewed_by = "a1"],
     [NewClaim(500) EXCEPT !.status = "rejected", !.rejection_reason = "late",
                           !.reviewed_date = Some(1), !.reviewed_by = "a1"]}

\* The reports start from any ledger and any reviewed claims.
InitReports ==
    /\ users = Users
    /\ member = [m \in Members |-> WithShaNumber(NewMember, "047", FreeDraw[m])]
    /\ doc = [d \in Docs |-> NoDoc]
    /\ claim \in [Claims -> ReviewedClaims]
    /\ contribution \in Ledgers
    /\ auditLog = <<>>
    /\ notifications = [n \in Members \X {"registration_approved"} |-> 0]
    /\ now = 1
    /\ req = [r \in Reqs |-> IdleReq]
    /\ response = Answer("none", 0)
    /\ otp = [o \in OTPs |-> NoOTP]
    /\ visit = [v \in Visits |-> NoVisit]
    /\ stock = [s \in Stocks |-> NoStock]
    /\ prescription = [p \in Prescriptions |-> NoPrescription]
    /\ item = [i \in Items |-> NoItem]
    /\ visit_hospital = [v \in Visits |-> NULL]
    /\ claim_hospital = [c \in Claims |-> NULL]
    /\ claim_visit = [c \in Claims |-> NULL]

ReportNext ==
    \/ \E u \in {"a1"} : admin_dashboard(u)
    \/ \E u \in {"a1"}, m \in Members : member_detail(u, m)
    \/ \E p \in Months : get_contribution_stats(p)
    \/ get_claim_stats

SpecReports == InitReports /\ [][ReportNext]_vars

\* Two approve_member requests, of either admin, running concurrently on one
\* member.
ConcurrentApprovalNext ==
    \/ RegisterMember("m1")
    \/ \E r \in Reqs, u \in Admins, method \in {"GET", "POST"} :
          ApproveMemberLoad(r, u, "m1", method)
    \/ \E r \in Reqs : ApproveMemberSave(r)
    \/ \E r \in Reqs : ApproveMemberAudit(r)
    \/ \E r \in Reqs : ApproveMemberNotify(r)

SpecConcurrentApproval == Init /\ [][ConcurrentApprovalNext]_vars

\* The two guarded views, called by an admin and by a hospital user.
AccessPosts == ApprovePosts({"300"}, {""}) \cup RejectPosts({"late"})

AccessNext ==
    \/ RegisterMember("m1")
    \/ \E a \in ClaimedAmounts : SubmitClaim("c1", a)
    \/ \E u \in {"a1", "h1"}, method \in {"GET", "POST"} :
          ApproveMemberLoad("r1", u, "m1", method)
    \/ ApproveMemberSave("r1")
    \/ ApproveMemberAudit("r1")
    \/ ApproveMemberNotify("r1")
    \/ \E u \in {"a1", "h1"}, method \in {"GET", "POST"}, post \in AccessPosts :
          ClaimDetailLoad("r1", u, "c1", method, post)
    \/ ClaimDetailSave("r1")
    \/ ClaimDetailAudit("r1")

SpecAccess == Init /\ [][AccessNext]_vars

\* The single-claim approval with an amount that is missing, is no number, or
\* is one.
SpecAmounts ==
    Init /\ [][ClaimNext({"r1"}, {"c1"}, {"c1"}, {"a1"},
                         ApprovePosts({MISSING, "abc", "300"}, {"", "checked"}))]_vars

NumberNext ==
    \/ \E m \in Members, code \in CountyCodes, d \in RandomDigits : SHAMemberSave(m, code, d)
    \/ \E m \in Members, s \in MEMBER_STATUS, code \in CountyCodes, d \in RandomDigits :
          SHAMemberSaveAgain(m, s, code, d)

SpecNumbers == Init /\ [][NumberNext]_vars

SpecLedger == Init /\ [][LedgerNext(Reqs, {"m1"}, PAYMENT_STATUS)]_vars

\* The identity registry with its documents and its users: one member, one
\* request at a time, every user.
Next ==
    \/ Tick
    \/ MemberNext({"r1"}, {"m1"}, Users)
    \/ DocNext(Users)
    \/ UserNext(Admins)

Spec == Init /\ [][Next]_vars

\* ===================================================================
\* Properties
\* ===================================================================

\* The step in which the approve_member request r acts on what it loaded.
ApproveMemberActs(r) ==
    /\ req[r].pc = "loaded"
    /\ req[r].kind = "approve_member"
    /\ req'[r] # req[r]

\* The step in which the claim_detail request r acts on what it loaded.
ClaimDetailActs(r, action) ==
    /\ req[r].pc = "loaded"
    /\ req[r].kind = "claim_detail"
    /\ req[r].post.action = action
    /\ req'[r] # req[r]

\* A step of one of the two bulk claim actions.
BulkClaimStep ==
    \E u \in Users, qs \in SUBSET Claims : approve_claims(u, qs) \/ reject_claims(u, qs)

ReviewFieldsKept(c) ==
    /\ claim'[c].status = claim[c].status
    /\ claim'[c].amount_approved = claim[c].amount_approved
    /\ claim'[c].reviewed_date = claim[c].reviewed_date
    /\ claim'[c].reviewed_by = claim[c].reviewed_by

\* The claim is still as the request r loaded it.
ClaimFresh(r) == claim[req[r].target] = req[r].snap

\* C1: an approve request on a claim whose status is approved, rejected or
\* paid leaves the claim's status, amount_approved, reviewed_date and reviewed_by
\* unchanged (stated of a request that no other write to the claim overlaps).
C1_ApproveOnlyOpenClaims ==
    [][\A r \in Reqs :
          (/\ ClaimDetailActs(r, "approve")
           /\ ClaimFresh(r)
           /\ claim[req[r].target].status \in {"approved", "rejected", "paid"})
          => ReviewFieldsKept(req[r].target)]_vars

\* C2: approve and reject exclude each other: no approve or reject request,
\* single or bulk, moves a claim from approved to rejected or from rejected to
\* approved (stated of requests that no other write to the claim overlaps).
C2_ApproveRejectExclusive ==
    [][((\E r \in Reqs : /\ ClaimDetailActs(r, "approve") \/ ClaimDetailActs(r, "reject")
                         /\ ClaimFresh(r))
        \/ BulkClaimStep)
       => \A c \in Claims :
             /\ ~(claim[c].status = "approved" /\ claim'[c].status = "rejected")
             /\ ~(claim[c].status = "rejected" /\ claim'[c].status = "approved")]_vars

\* C3: every claim whose amount_approved is set has
\* amount_approved <= amount_claimed.
C3_ApprovedWithinClaimed ==
    \A c \in Claims :
        claim[c].exists => \A a \in claim[c].amount_approved : a <= claim[c].amount_claimed

ApprovalAudits(m) ==
    {i \in AuditsFor(auditLog, "SHAMember", m) : auditLog[i].action_type = "approval"}

Untouched(kind, id) ==
    \A r \in Reqs : req[r].pc # "idle" => ~(req[r].kind = kind /\ req[r].target = id)

\* C5: once a registered member has been approved (by the view or by the bulk
\* action), exactly one approval audit entry and exactly one
\* registration_approved notification exist for the member.
C5_OneAuditPerApproval ==
    \A m \in Members :
        (/\ member[m].exists
         /\ member[m].approval_date # Nothing
         /\ Untouched("approve_member", m))
        => /\ Cardinality(ApprovalAudits(m)) = 1
           /\ NoticesFor(m, "registration_approved") = 1

AtMostOnePerPeriod ==
    \A m \in Members, p \in Months : Cardinality(RowsOf(contribution, m, p)) <= 1

RowsKept ==
    /\ Len(contribution') >= Len(contribution)
    /\ \A i \in 1..Len(contribution) : contribution'[i] = contribution[i]

\* C6: at most one contribution exists for a member and period under any
\* interleaving of submissions, and no submission overwrites a row that exists.
C6_OneContributionPerPeriod == []AtMostOnePerPeriod /\ [][RowsKept]_vars

C6_Witness ==
    /\ response.outcome = "duplicate"
    /\ Cardinality(RowsOf(contribution, "m1", "2024-01")) = 1
    /\ \E r \in Reqs :
          /\ req[r].pc = "submitted"
          /\ req[r].row.contribution_month = "2024-01"

\* The step in which the record_payment request r runs its INSERT.
RecordPaymentActs(r) ==
    /\ req[r].pc = "submitted"
    /\ req[r].kind = "record_payment"
    /\ req'[r].pc = "idle"

\* C7: a record_payment for a member and period that already has a
\* contribution answers with the duplicate error and leaves the rows and the
\* total of that member and period as they were.
C7_DuplicateLeavesLedger ==
    [][\A r \in Reqs :
          (/\ RecordPaymentActs(r)
           /\ RowsOf(contribution, req[r].row.member, req[r].row.contribution_month) # {})
          => /\ response'.outcome = "duplicate"
             /\ contribution' = contribution
             /\ TotalFor(contribution', req[r].row.member, req[r].row.contribution_month)
                  = TotalFor(contribution, req[r].row.member, req[r].row.contribution_month)]_vars

C7_Witness ==
    /\ response.outcome = "duplicate"
    /\ Len(contribution) = 1
    /\ contribution[1].amount = 500
    /\ TotalFor(contribution, "m1", "2024-01") = 500

\* The audit entries of an entity, with the one a request that has saved the
\* entity is about to write.
Recorded(model, kind, id) ==
    Cardinality(AuditsFor(auditLog, model, id))
    + Cardinality({r \in Reqs : /\ req[r].pc = "saved"
                                /\ req[r].kind = kind
                                /\ req[r].target = id})

\* A step of one of the audited operations: member approve, suspend, activate,
\* claim approve, reject (single and bulk), document verification.
AuditedOperation ==
    \/ \E r \in Reqs : ApproveMemberActs(r) \/ ClaimDetailActs(r, "approve")
                                           \/ ClaimDetailActs(r, "reject")
    \/ BulkClaimStep
    \/ \E u \in Users, qs \in SUBSET Members : approve_members(u, qs)
    \/ \E qs \in SUBSET Members : suspend_members(qs) \/ activate_members(qs)
    \/ \E u \in Users, qs \in SUBSET Docs : verify_documents(u, qs)

\* C8: every state-changing operation produces exactly one audit entry for the
\* entity it changes.
C8_OneAuditPerChange ==
    [][AuditedOperation =>
          /\ \A m \in Members :
                member'[m] # member[m] =>
                   Recorded("SHAMember", "approve_member", m)'
                     = Recorded("SHAMember", "approve_member", m) + 1
          /\ \A c \in Claims :
                claim'[c] # claim[c] =>
                   Recorded("Claim", "claim_detail", c)'
                     = Recorded("Claim", "claim_detail", c) + 1
          /\ \A d \in Docs :
                doc'[d] # doc[d] =>
                   Cardinality(AuditsFor(auditLog', "MemberDocument", d))
                     = Cardinality(AuditsFor(auditLog, "MemberDocument", d)) + 1]_vars

\* C9: a member approval or claim review is never committed without its audit
\* entry: the request that has saved the entity writes the entry as its next
\* step, also when a failure ends it.
C9_MutationWithAudit ==
    [][\A r \in Reqs :
          (req[r].pc = "saved" /\ req'[r] # req[r])
          => /\ Len(auditLog') = Len(auditLog) + 1
             /\ auditLog'[Len(auditLog')].object_id = req[r].target]_vars

\* C10: the audit log is append-only: no step removes an entry or changes a
\* field of an entry.
C10_AuditAppendOnly ==
    [][/\ Len(auditLog') >= Len(auditLog)
       /\ \A i \in 1..Len(auditLog) : auditLog'[i] = auditLog[i]]_vars

\* The claims of the queryset qs that a bulk action transitions.
Transitioned(qs) == {c \in qs : claim[c].exists /\ claim'[c].status # claim[c].status}

\* The claims that the single-claim guard of the specification lets through.
OpenClaims(qs) ==
    {c \in qs : claim[c].exists /\ claim[c].status \in {"submitted", "under_review"}}

\* C11: a bulk approve or reject transitions exactly the claims of its batch
\* whose status is submitted or under_review, leaves every other claim as it
\* is, and reports the number of claims it transitioned.
C11_BulkAppliesGuard ==
    [][\A u \in Users, qs \in SUBSET Claims :
          (approve_claims(u, qs) \/ reject_claims(u, qs))
          => /\ Transitioned(qs) = OpenClaims(qs)
             /\ \A c \in Claims \ OpenClaims(qs) : claim'[c] = claim[c]
             /\ response'.count = Cardinality(Transitioned(qs))]_vars

\* C12: a reject needs a non-empty reason.  A reject request with an empty
\* reason leaves the claim as it is and writes no audit entry; one with a
\* reason takes effect only from submitted or under_review, where it sets
\* status rejected and records the reason, the reviewer and the time (stated
\* of a request that no other write to the claim overlaps); and the bulk reject
\* never leaves a claim rejected without a reason.
C12_RejectNeedsReason ==
    [][/\ \A r \in Reqs :
             (ClaimDetailActs(r, "reject") /\ ClaimFresh(r)) =>
                LET c == req[r].target
                    reason == req[r].post.rejection_reason
                IN IF reason = ""
                   THEN /\ claim' = claim
                        /\ auditLog' = auditLog
                        /\ req'[r].pc = "idle"
                   ELSE IF claim[c].status \in {"submitted", "under_review"}
                   THEN /\ claim'[c].status = "rejected"
                        /\ claim'[c].rejection_reason = reason
                        /\ claim'[c].reviewed_by = req[r].user
                        /\ claim'[c].reviewed_date = Some(now)
                   ELSE claim' = claim
       /\ \A u \in Users, qs \in SUBSET Claims :
             reject_claims(u, qs) =>
                \A c \in Transitioned(qs) : claim'[c].rejection_reason # ""]_vars

\* No request acts on a claim that another write has changed since the
\* request loaded it.
NoStaleSave ==
    \A r \in Reqs :
        (ClaimDetailActs(r, "approve") \/ ClaimDetailActs(r, "reject")) => ClaimFresh(r)

\* C13: once a claim is approved or rejected, no later operation changes its
\* reviewed_date or its reviewed_by (stated of steps in which no request saves
\* a stale copy of a claim).
C13_ReviewFactsImmutable ==
    [][NoStaleSave =>
          \A c \in Claims :
             (claim[c].exists /\ claim[c].status \in {"approved", "rejected"})
             => /\ claim'[c].reviewed_date = claim[c].reviewed_date
                /\ claim'[c].reviewed_by = claim[c].reviewed_by]_vars

\* The transitions of the claim state machine
\* submitted -> under_review -> {approved | rejected} -> paid, where approve
\* and reject are taken from submitted or under_review and paid only from
\* approved.
ClaimMachine ==
    {<<"submitted", "under_review">>, <<"submitted", "approved">>,
     <<"submitted", "rejected">>, <<"under_review", "approved">>,
     <<"under_review", "rejected">>, <<"approved", "paid">>}

\* C14: every change of a claim's status is a transition of the claim state
\* machine: in particular no claim returns to submitted, and no claim becomes
\* paid from a status other than approved.
C14_ClaimMachine ==
    [][\A c \in Claims :
          (claim[c].exists /\ claim'[c].status # claim[c].status)
          => <<claim[c].status, claim'[c].status>> \in ClaimMachine]_vars

\* C15: no operation moves a pending member to active without recording the
\* approver and the time of the approval.
C15_ActiveOnlyByApproval ==
    [][\A m \in Members :
          (/\ member[m].exists
           /\ member[m].status = "pending"
           /\ member'[m].status = "active")
          => /\ member'[m].approval_date # Nothing
             /\ member'[m].approved_by # NULL]_vars

\* The members of the queryset qs get the status s, whatever their status
\* was; nothing else of any member changes.
OnlyStatusSet(qs, s) ==
    \A m \in Members :
        IF m \in qs /\ member[m].exists
        THEN member'[m] = [member[m] EXCEPT !.status = s]
        ELSE member'[m] = member[m]

\* C16: suspend_members sets status suspended and activate_members sets status
\* active on every member of the queryset, in any status; the members' other
\* fields and every other table stay as they are.
C16_SuspendActivateFrame ==
    [][\A qs \in SUBSET Members :
          /\ suspend_members(qs) => OnlyStatusSet(qs, "suspended")
          /\ activate_members(qs) => OnlyStatusSet(qs, "active")
          /\ (suspend_members(qs) \/ activate_members(qs))
             => UNCHANGED <<clinical, users, doc, claim, contribution, auditLog, notifications,
                            now, req>>]_vars

C16_Witness ==
    /\ response = Answer("updated", 1)
    /\ member["m1"].status = "suspended"
    /\ member["m1"].approval_date # Nothing
    /\ member["m1"].approved_by = "a1"
    /\ member["m2"].exists
    /\ member["m2"].status = "pending"

\* The visits that were verified with the OTP o.
VerifiedWith(o) == {v \in Visits : visit[v].exists /\ visit[v].otp_verified /\ visit[v].otp = o}

UsedStaysUsed == \A o \in OTPs : (otp[o].exists /\ otp[o].is_used) => otp'[o].is_used

AtMostOneVerification == \A o \in OTPs : Cardinality(VerifiedWith(o)) <= 1

\* C17: an OTP goes from unused to used once and never back, and at most one
\* verification (one visit check-in) succeeds with a given OTP.
C17_OTPUsedOnce == []AtMostOneVerification /\ [][UsedStaysUsed]_vars

\* An OTP saved without an expiry expires 10 minutes after its issuance.
ExpiryDefaulted ==
    \A o \in OTPs : OTPSave(o, Nothing) => otp'[o].expires_at = now + 10

\* is_expired() holds from the first minute after expires_at on.
ExpiredAfterExpiry ==
    \A o \in OTPs :
        otp[o].exists => (is_expired(otp[o]) <=> \E late \in 1..MaxMinutes + 1 :
                                                    now = otp[o].expires_at + late)

\* A verification passes with the OTP o: o is marked used, or a visit is
\* marked verified with o.
Passes(o) ==
    \/ ~otp[o].is_used /\ otp'[o].is_used
    \/ \E v \in Visits :
          /\ ~(visit[v].otp_verified /\ visit[v].otp = o)
          /\ visit'[v].otp_verified /\ visit'[v].otp = o

ExpiredNeverPasses == \A o \in OTPs : (otp[o].exists /\ is_expired(otp[o])) => ~Passes(o)

\* C18: an OTP saved without an explicit expiry expires 10 minutes after it
\* was issued, is_expired() is true exactly when the time is later than
\* expires_at, and no verification passes with an expired OTP.
C18_OTPExpiry == [][ExpiryDefaulted /\ ExpiredAfterExpiry /\ ExpiredNeverPasses]_vars

\* C19: every visit that is checked_in, in_consultation or completed has
\* otp_verified true, otp_verified_at set and a linked OTP that is marked used.
C19_CheckInNeedsOTP ==
    \A v \in Visits :
        (visit[v].exists /\ visit[v].status \in {"checked_in", "in_consultation", "completed"})
        => /\ visit[v].otp_verified
           /\ visit[v].otp_verified_at # Nothing
           /\ visit[v].otp # NULL
           /\ otp[visit[v].otp].is_used

\* The transitions of the visit state machine
\* scheduled -> checked_in -> in_consultation -> completed, with cancelled
\* reachable from the three states that are not terminal.
VisitMachine ==
    {<<"scheduled", "checked_in">>, <<"checked_in", "in_consultation">>,
     <<"in_consultation", "completed">>, <<"scheduled", "cancelled">>,
     <<"checked_in", "cancelled">>, <<"in_consultation", "cancelled">>}

\* C20: every change of a visit's status is a transition of the visit state
\* machine: no step is skipped or taken backwards, and no transition leaves
\* completed or cancelled.
C20_VisitMachine ==
    [][\A v \in Visits :
          (visit[v].exists /\ visit'[v].status # visit[v].status)
          => <<visit[v].status, visit'[v].status>> \in VisitMachine]_vars

\* The step in which the stock form of the request r is posted.
StockPostActs(r) == req[r].pc = "stock_form" /\ req'[r].pc = "idle"

StockNeverNegative == \A s \in Stocks : stock[s].current_stock >= 0

\* A posted form that the validator refused leaves every stock row as it was.
RefusedLeavesStock ==
    \A r \in Reqs :
        (StockPostActs(r) /\ response'.outcome = "validation_error") => stock' = stock

\* A post changes the stock only to a value that is not negative.
StockChangesValid ==
    \A s \in Stocks :
        stock'[s].current_stock # stock[s].current_stock => stock'[s].current_stock >= 0

AggregateStatus ==
    IF \A i \in Items : is_fully_dispensed(item[i]) THEN "dispensed"
    ELSE IF \E i \in Items : item[i].quantity_dispensed > 0 THEN "partially_dispensed"
    ELSE "pending"

\* C22: the status of a prescription that is not cancelled is the aggregate
\* of its items: dispensed when every item is fully dispensed,
\* partially_dispensed when something but not everything is dispensed,
\* pending when nothing is.
C22_StatusIsAggregate ==
    \A p \in Prescriptions :
        (prescription[p].exists /\ prescription[p].status # "cancelled")
        => prescription[p].status = AggregateStatus

DispensedWithinPrescribed ==
    \A i \in Items :
        item[i].exists =>
           /\ 0 <= item[i].quantity_dispensed
           /\ item[i].quantity_dispensed <= item[i].quantity_prescribed

DispensedNeverDecreases ==
    \A i \in Items : item[i].exists => item'[i].quantity_dispensed >= item[i].quantity_dispensed

\* C23: every prescription item has 0 <= quantity_dispensed <=
\* quantity_prescribed, and no step lowers quantity_dispensed.
C23_DispensedBounded == []DispensedWithinPrescribed /\ [][DispensedNeverDecreases]_vars

\* C24: every claim belongs to a visit, and the claim's hospital is the
\* hospital of that visit.
C24_ClaimAtVisitHospital ==
    \A c \in Claims :
        claim[c].exists =>
           /\ claim_visit[c] # NULL
           /\ claim_hospital[c] = visit_hospital[claim_visit[c]]

\* The completed contributions among the rows idx of the ledger.
CompletedAmong(idx) == {i \in idx : contribution[i].status = "completed"}

\* The sum of a column of the claims of S, a missing amount counting nothing.
RECURSIVE ClaimedSum(_)
ClaimedSum(S) ==
    IF S = {} THEN 0
    ELSE LET c == CHOOSE x \in S : TRUE
         IN claim[c].amount_claimed + ClaimedSum(S \ {c})

RECURSIVE ApprovedSum(_)
ApprovedSum(S) ==
    IF S = {} THEN 0
    ELSE LET c == CHOOSE x \in S : TRUE
         IN (IF claim[c].amount_approved = Nothing THEN 0
             ELSE ValueOf(claim[c].amount_approved))
            + ApprovedSum(S \ {c})

\* C25: every money aggregation is the sum of the amounts of the rows it
\* selects, and a number (zero), never NULL, when it selects no row or only
\* rows without an amount: the completed contributions overall, per member
\* and per month, the claimed amount of all claims and the approved amount of
\* the approved claims.
C25_AggregationsAreSums ==
    /\ response.outcome = "dashboard" =>
          /\ response.total_contributions
               = SumAmounts(contribution, CompletedAmong(1..Len(contribution)))
          /\ response.total_claims_amount = ClaimedSum({c \in Claims : claim[c].exists})
          /\ response.total_contributions \in Nat
          /\ response.total_claims_amount \in Nat
    /\ response.outcome = "member_detail" =>
          /\ response.total_contributions
               = SumAmounts(contribution,
                            CompletedAmong({i \in 1..Len(contribution) :
                                               contribution[i].member = response.member}))
          /\ response.total_contributions \in Nat
    /\ response.outcome = "contribution_stats" =>
          /\ response.monthly_contributions
               = SumAmounts(contribution,
                            CompletedAmong({i \in 1..Len(contribution) :
                                               contribution[i].contribution_month
                                                 = response.month}))
          /\ response.monthly_contributions \in Nat
    /\ response.outcome = "claim_stats" =>
          /\ response.approved_claims_value
               = ApprovedSum({c \in Claims : claim[c].exists /\ claim[c].status = "approved"})
          /\ response.approved_claims_value \in Nat

C25_Witness ==
    /\ response.outcome = "claim_stats"
    /\ response.approved_claims_value = 0
    /\ claim["c1"].status = "approved"
    /\ claim["c1"].amount_approved = Nothing
    /\ ~claim["c2"].exists
    /\ Len(contribution) = 2
    /\ contribution[1].status = "completed"
    /\ contribution[2].status = "pending"


\* No two members have the same membership number, and every member has one
\* of the form SHA + county code + six digits.
NumbersUnique ==
    \A m \in Members : member[m].exists =>
        /\ member[m].sha_number \in {generate_sha_number(c, d) :
                                        c \in CountyCodes, d \in RandomDigits}
        /\ \A x \in Members \ {m} : member[x].exists =>
              member[x].sha_number # member[m].sha_number

\* No save changes the number a member has.
NumberKept ==
    \A m \in Members : member[m].exists => member'[m].sha_number = member[m].sha_number

\* Every registration yields a member; none fails.
RegistrationYieldsMember ==
    \A m \in Members, code \in CountyCodes, d \in RandomDigits :
        SHAMemberSave(m, code, d) => member'[m].exists

\* C26: registering a member always yields a membership number unique among
\* all members: it is generated once at first save (prefix + county code +
\* six digits), no later save changes it, and a registration whose generated
\* number collides with an existing member's gets a new number instead of
\* failing or duplicating.
C26_RegistrationYieldsUniqueNumber ==
    /\ []NumbersUnique
    /\ [][NumberKept]_vars
    /\ [][RegistrationYieldsMember]_vars


\* At most one approval audit entry and one approval notification a member.
ApprovedAtMostOnce ==
    \A m \in Members :
        /\ Cardinality(ApprovalAudits(m)) <= 1
        /\ NoticesFor(m, "registration_approved") <= 1

\* The approver and the approval time of an approved member stay.
ApprovalKept ==
    \A m \in Members :
        member[m].status = "active" =>
            /\ member'[m].approved_by = member[m].approved_by
            /\ member'[m].approval_date = member[m].approval_date

\* C27: under any interleaving of two concurrent approve_member requests for
\* the same pending member the approval takes effect once: at most one approval
\* audit entry and at most one registration_approved notification exist for
\* the member, and approved_by and approval_date are those of a single request
\* (the second request does not overwrite them).
C27_ConcurrentApprovalOnce == []ApprovedAtMostOnce /\ [][ApprovalKept]_vars


\* C28: in every reachable state amount_approved is set on exactly the claims
\* that were approved: every approved claim (approved singly or by the bulk
\* action) has amount_approved set, and every submitted, under_review or
\* rejected claim has it unset.
C28_AmountOnApprovedOnly ==
    \A c \in Claims :
        claim[c].exists =>
            /\ claim[c].status = "approved" => claim[c].amount_approved # Nothing
            /\ claim[c].status \in {"submitted", "under_review", "rejected"}
                  => claim[c].amount_approved = Nothing


\* What a request of a user who is not an admin leaves alone, and its answer.
Refused ==
    /\ UNCHANGED <<member, claim, auditLog, notifications, req, doc, contribution>>
    /\ response'.outcome = "redirect_login"

\* C29: a request of a user whose user_type is not admin never changes state
\* through approve_member or claim_detail: whatever its method and action, no
\* member, claim, audit entry or notification is created or modified (and no
\* work is left pending), and the request ends in a redirect to the login page.
C29_NonAdminChangesNothing ==
    [][/\ \A r \in Reqs, u \in NonAdmins, m \in Members, method \in {"GET", "POST"} :
             ApproveMemberLoad(r, u, m, method) => Refused
       /\ \A r \in Reqs, u \in NonAdmins, c \in Claims, method \in {"GET", "POST"},
             post \in AccessPosts :
             ClaimDetailLoad(r, u, c, method, post) => Refused]_vars

C29_Witness ==
    /\ response.outcome = "redirect_login"
    /\ member["m1"].exists /\ member["m1"].status = "pending"
    /\ claim["c1"].exists /\ claim["c1"].status = "submitted"
    /\ auditLog = <<>>


\* C30: a single-claim approve request whose approved_amount is missing or is
\* no valid decimal number is answered with the recoverable 'Invalid approved
\* amount' error, not an unhandled failure, leaves the claim's status,
\* amount_approved, review_notes, reviewed_date and reviewer unchanged and
\* writes no audit entry.
C30_InvalidAmountRecoverable ==
    [][\A r \in Reqs :
          (ClaimDetailActs(r, "approve") /\ ~Decimal(req[r].post.approved_amount).ok)
          => /\ response'.outcome = "invalid_approved_amount"
             /\ UNCHANGED <<claim, auditLog>>
             /\ req'[r] = IdleReq]_vars

=============================================================================
